---- MODULE Spec2Model ----
(***************************************************************************)
(* The Sales Dashboard page script (src/app.py) as a state machine.        *)
(*                                                                         *)
(* The hosting framework reruns the whole script for every interaction of  *)
(* a browser session; several sessions are served by one process and share *)
(* the two process-wide caches (get_connection, get_customer_names) and    *)
(* the database.  A session's rerun is cut into steps at every access to   *)
(* that shared state; what lies between two such accesses is one step.     *)
(*                                                                         *)
(* Text (questions, model replies, SQL statements, customer names) is a    *)
(* sequence of characters, one string per character.  The backtick, the    *)
(* newline and the tab are written "BT", "NL" and "TAB".                   *)
(***************************************************************************)
EXTENDS Integers, Sequences, FiniteSets

VARIABLES
    env,            \* the process environment read by os.getenv
    table,          \* the Customer table of normalized.db: its display names
    connCache,      \* st.cache_resource entry of get_connection
    connLock,       \* the session computing get_connection's value
    opens,          \* sqlite3.connect calls made by the process
    namesCache,     \* st.cache_data entry of get_customer_names
    namesLock,      \* the session computing get_customer_names' value
    nameQueries,    \* executions of the customer-name statement
    handlesReturned,\* every handle a get_connection call has returned
    namesReturned,  \* every list a get_customer_names call has returned
    pc,             \* each session's position in the script
    ret,            \* where get_connection returns to
    inp,            \* the widget values of the session's current rerun
    loc,            \* the script's variables in the current rerun
    out,            \* the elements the rerun has rendered, in order
    cnt,            \* what the current rerun has done so far
    prevRejected,   \* the engine rejected the session's previous statement
    content,        \* response.choices[0].message.content (fence study)
    sql_from_ai,    \* the script's sql_from_ai (fence study)
    phase           \* position in lines 173-183 (fence study)

vars == <<env, table, connCache, connLock, opens, namesCache, namesLock,
          nameQueries, handlesReturned, namesReturned, pc, ret, inp, loc,
          out, cnt, prevRejected, content, sql_from_ai, phase>>

appVars == <<env, table, connCache, connLock, opens, namesCache, namesLock,
             nameQueries, handlesReturned, namesReturned, pc, ret, inp, loc,
             out, cnt, prevRejected>>

fenceVars == <<content, sql_from_ai, phase>>

-----------------------------------------------------------------------------
(* Bounds of the model.                                                    *)

\* longest SQL body placed between the fences of a model reply
MaxBody == 3
\* longest unfenced model reply
MaxRaw == 3

-----------------------------------------------------------------------------
(* Python's str operations used by the script.                             *)

BT == "BT"
NL == "NL"
TAB == "TAB"

\* the characters str.strip() removes
Whitespace == {" ", NL, TAB}

UpperCase == <<"A", "B", "C", "D", "E", "F", "G", "H", "I", "J", "K", "L", "M",
               "N", "O", "P", "Q", "R", "S", "T", "U", "V", "W", "X", "Y", "Z">>
LowerCase == <<"a", "b", "c", "d", "e", "f", "g", "h", "i", "j", "k", "l", "m",
               "n", "o", "p", "q", "r", "s", "t", "u", "v", "w", "x", "y", "z">>

LowerChar(c) ==
    IF \E i \in DOMAIN UpperCase : UpperCase[i] = c
    THEN LowerCase[CHOOSE i \in DOMAIN UpperCase : UpperCase[i] = c]
    ELSE c

\* str.lower()
Lower(s) == [i \in 1..Len(s) |-> LowerChar(s[i])]

\* str.startswith(p)
StartsWith(s, p) == Len(s) >= Len(p) /\ SubSeq(s, 1, Len(p)) = p

RECURSIVE LStrip(_, _)
LStrip(s, chars) ==
    IF s # <<>> /\ Head(s) \in chars THEN LStrip(Tail(s), chars) ELSE s

RECURSIVE RStrip(_, _)
RStrip(s, chars) ==
    IF s # <<>> /\ s[Len(s)] \in chars
    THEN RStrip(SubSeq(s, 1, Len(s) - 1), chars)
    ELSE s

\* str.strip(chars): leading and trailing characters of the set removed
StripChars(s, chars) == RStrip(LStrip(s, chars), chars)

\* str.strip()
Strip(s) == StripChars(s, Whitespace)

\* s[3:]
DropTag(s) == SubSeq(s, 4, Len(s))

Fence == <<BT, BT, BT>>
SqlTag == <<"s", "q", "l">>

\* a mutant of RemoveFences: the backticks are stripped from every reply
RemoveFencesAlways(s) ==
    LET t == Strip(StripChars(s, {BT}))
    IN  IF StartsWith(Lower(t), SqlTag) THEN Strip(DropTag(t)) ELSE t

\* lines 180-183, applied to the trimmed reply
RemoveFences(s) ==
    IF StartsWith(s, Fence)
    THEN LET t == Strip(StripChars(s, {BT}))
         IN  IF StartsWith(Lower(t), SqlTag) THEN Strip(DropTag(t)) ELSE t
    ELSE s

-----------------------------------------------------------------------------
(* The fence study: lines 173-183 applied to bounded model replies.        *)

FenceAlphabet == {BT, NL, " ", "s", "q", "l", "S", "x"}

RECURSIVE Texts(_, _)
\* every text of at most n characters of the alphabet
Texts(alphabet, n) ==
    IF n = 0 THEN {<<>>}
    ELSE LET shorter == Texts(alphabet, n - 1)
         IN  shorter \cup {Append(t, c) : t \in shorter, c \in alphabet}

Bodies == Texts(FenceAlphabet, MaxBody)
Tags == {<<>>, <<"s", "q", "l">>, <<"S", "Q", "L">>, <<"S", "q", "l">>}
Pads == {<<>>, <<" ">>, <<NL>>}

\* triple-backtick + optional tag + newline + body + newline + triple-backtick
Fenced(tag, body) == Fence \o tag \o <<NL>> \o body \o <<NL>> \o Fence

\* a reply of the study with how it was built: whitespace around a fenced
\* body, or around a text taken as it is
FenceReply(form, lpad, tag, body, rpad) ==
    [text |-> lpad \o (IF form = "fenced" THEN Fenced(tag, body) ELSE body)
                  \o rpad,
     form |-> form, tag |-> tag, body |-> body]

TrimReply ==
    /\ phase = "reply"
    /\ sql_from_ai' = Strip(content.text)
    /\ phase' = "trimmed"
    /\ UNCHANGED <<content, appVars>>

CleanReply ==
    /\ phase = "trimmed"
    /\ sql_from_ai' = RemoveFences(sql_from_ai)
    /\ phase' = "cleaned"
    /\ UNCHANGED <<content, appVars>>

-----------------------------------------------------------------------------
(* Configuration, lines 12-22.                                             *)

\* the browser sessions the process serves: two, so that reruns overlap
Sessions == {"s1", "s2"}

\* the value of a compute lock nobody holds
Free == "free"

\* Python's None, among strings
None == "<None>"
\* Python's None, among texts
NoText == <<"<None>">>

EnvValues ==
    [APP_PASSWORD : {None, "hunter2"}, GROQ_API_KEY : {None, "", "gsk_key"}]

\* os.getenv(name, default)
GetEnv(name, default) == IF env[name] = None THEN default ELSE env[name]

APP_PASSWORD == GetEnv("APP_PASSWORD", "test123")
GROQ_API_KEY == GetEnv("GROQ_API_KEY", None)

\* a mutant of KeyMissing: only an unset key halts the script
KeyMissingUnsetOnly == GROQ_API_KEY = None

\* line 18: not GROQ_API_KEY
KeyMissing == GROQ_API_KEY = None \/ GROQ_API_KEY = ""

\* a mutant of GateStops: only the empty password is turned away
GateStopsEmptyOnly(password_input) == password_input = ""

\* line 58
GateStops(password_input) == password_input # APP_PASSWORD

-----------------------------------------------------------------------------
(* The database and the SQL texts of the model.                            *)

Ann == <<"A", "n", "n", " ", "L", "e", "e">>
Bob == <<"B", "o", "b", " ", "R", "a", "y">>

\* the display names a Customer row can have, in ORDER BY Name order
NameOrder == <<Ann, Bob>>
CustomerNames == {NameOrder[i] : i \in DOMAIN NameOrder}

RECURSIVE Ordered(_, _)
Ordered(names, present) ==
    IF names = <<>> THEN <<>>
    ELSE IF Head(names) \in present
         THEN <<Head(names)>> \o Ordered(Tail(names), present)
         ELSE Ordered(Tail(names), present)

\* lines 36-44: SELECT DISTINCT ... AS Name FROM Customer ORDER BY Name
NameList(tbl) == Ordered(NameOrder, tbl)

\* line 90: the text area's initial value
Sample ==
    <<"S", "E", "L", "E", "C", "T", " ", "*", " ", "F", "R", "O", "M", " ",
      "C", "u", "s", "t", "o", "m", "e", "r", " ", "L", "I", "M", "I", "T",
      " ", "5", ";">>
Misspelt ==
    <<"S", "E", "L", "E", "C", " ", "*", " ", "F", "R", "O", "M", " ", "C",
      "u", "s", "t", "o", "m", "e", "r">>
DeleteAll ==
    <<"D", "E", "L", "E", "T", "E", " ", "F", "R", "O", "M", " ", "C", "u",
      "s", "t", "o", "m", "e", "r", ";">>
SelectOne == <<"S", "E", "L", "E", "C", "T", " ", "1", ";">>

\* mini_project2.ex1(conn, name): the order lines of one customer
ex1(name) ==
    <<"S", "E", "L", "E", "C", "T", " ", "*", " ", "F", "R", "O", "M", " ",
      "O", "r", "d", "e", "r", "D", "e", "t", "a", "i", "l", " ", "W", "H",
      "E", "R", "E", " ", "N", "a", "m", "e", " ", "=", " ", "'">>
    \o name \o <<"'", ";">>

\* mini_project2.ex2(conn, name): the total of one customer
ex2(name) ==
    <<"S", "E", "L", "E", "C", "T", " ", "S", "U", "M", "(", "T", "o", "t",
      "a", "l", ")", " ", "F", "R", "O", "M", " ", "O", "r", "d", "e", "r",
      "D", "e", "t", "a", "i", "l", " ", "W", "H", "E", "R", "E", " ", "N",
      "a", "m", "e", " ", "=", " ", "'">>
    \o name \o <<"'", ";">>

\* mini_project2.ex3(conn): the total of every customer
ex3 ==
    <<"S", "E", "L", "E", "C", "T", " ", "N", "a", "m", "e", ",", " ", "S",
      "U", "M", "(", "T", "o", "t", "a", "l", ")", " ", "F", "R", "O", "M",
      " ", "O", "r", "d", "e", "r", "D", "e", "t", "a", "i", "l", " ", "G",
      "R", "O", "U", "P", " ", "B", "Y", " ", "N", "a", "m", "e", ";">>

\* statements the engine accepts and answers with rows
IsRead(sql) ==
    \/ sql \in {Sample, SelectOne, ex3}
    \/ \E n \in CustomerNames : sql \in {ex1(n), ex2(n)}

\* statements the engine accepts and that change the Customer table
IsWrite(sql) == sql = DeleteAll

\* statements the engine rejects
IsRejected(sql) == ~IsRead(sql) /\ ~IsWrite(sql)

\* line 48, pd.read_sql_query(sql, conn): what the caller gets and the table
\* afterwards.  A write is carried out by the engine; whether the caller then
\* gets an (empty) frame or an error for the missing result set is the
\* library's choice.
ReadSqlQuery(sql, tbl) ==
    IF IsRead(sql) THEN {[result |-> "rows", table |-> tbl]}
    ELSE IF IsWrite(sql)
         THEN {[result |-> r, table |-> {}] : r \in {"rows", "error"}}
         ELSE {[result |-> "error", table |-> tbl]}

-----------------------------------------------------------------------------
(* A session's rerun of the page script.                                   *)

\* what the user can type into the sidebar's password field
Passwords == {"", "test123", "hunter2"}

QueryOptions ==
    {"Customer orders (ex1)", "Customer total (ex2)",
     "All customers total (ex3)", "Custom SQL"}

\* the text area as the browser holds it: untouched, or the user's text
Unedited == <<"<unedited>">>
Edits == {Unedited, <<>>, Misspelt, DeleteAll}

\* what the user can type into the question field
Questions == {<<>>, <<" ", NL>>, <<"t", "o", "p", " ", "5">>}

\* what the hosted model call can come to: a fault of the request, a fault
\* of reading choices[0].message.content, or a reply
AiOutcomes ==
    {[kind |-> "request_fault", text |-> <<>>],
     [kind |-> "read_fault", text |-> <<>>],
     [kind |-> "reply", text |-> Fenced(SqlTag, SelectOne) \o <<NL>>],
     [kind |-> "reply", text |-> <<" ">> \o Misspelt \o <<BT>>]}

El(name) == [el |-> name, text |-> <<>>]
Code(name, sql) == [el |-> name, text |-> sql]

\* the element is on the session's page
Shown(s, name) == \E i \in DOMAIN out[s] : out[s][i].el = name

NoInput ==
    [password |-> "", trigger |-> "none", selected_customer |-> NoText,
     query_option |-> "", edit |-> Unedited, nl_question |-> <<>>,
     reply |-> [kind |-> "none", text |-> <<>>]]

NoLocals ==
    [customers |-> <<>>, custom_sql |-> <<>>, sql |-> <<>>,
     sql_from_ai |-> <<>>, conn |-> 0, calls |-> 0, result |-> "none",
     stale |-> FALSE]

NoCounts == [conn |-> 0, lookup |-> 0, sql |-> 0, exec |-> 0, ai |-> 0]

\* positions at which the script has ended: it ran to its last line, it
\* called st.stop(), or an exception left it
Ended == {"done", "stopped", "crashed"}

\* the widgets of a page, which stay in the browser between reruns
Widgets(page) ==
    SelectSeq(page, LAMBDA e :
        e.el \in {"password_input", "run_button", "ask_button"})

\* the buttons the session's page offers
Triggers(s) ==
    {"none"} \cup (IF Shown(s, "run_button") THEN {"run"} ELSE {})
             \cup (IF Shown(s, "ask_button") THEN {"ask"} ELSE {})

\* lines 15-63: a widget event starts a rerun; the script reads the
\* configuration, halts without a key, and halts at a wrong password
Rerun(s) ==
    /\ pc[s] = "idle"
    /\ \E password_input \in
            (IF Shown(s, "password_input") THEN Passwords ELSE {""}),
          trigger \in Triggers(s) :
        /\ inp' = [inp EXCEPT ![s] =
                [NoInput EXCEPT !.password = password_input,
                                !.trigger = trigger]]
        /\ IF KeyMissing
           THEN /\ out' = [out EXCEPT ![s] = <<El("key_error")>>]
                /\ pc' = [pc EXCEPT ![s] = "stopped"]
           ELSE IF GateStops(password_input)
           THEN /\ out' = [out EXCEPT ![s] =
                        <<El("password_input"), El("login_info")>>]
                /\ pc' = [pc EXCEPT ![s] = "stopped"]
           ELSE /\ out' = [out EXCEPT ![s] =
                        <<El("password_input"), El("title")>>]
                /\ pc' = [pc EXCEPT ![s] = "names"]
    /\ loc' = [loc EXCEPT ![s] = NoLocals]
    /\ cnt' = [cnt EXCEPT ![s] = NoCounts]
    /\ UNCHANGED <<env, table, connCache, connLock, opens, namesCache,
                   namesLock, nameQueries, handlesReturned, namesReturned,
                   ret, prevRejected, fenceVars>>

\* a mutant of NamesHitUnderLock: the cache is not read again under the lock
NamesNoSecondRead == FALSE

\* st.cache_data, the second read of the entry, made under the compute lock
NamesHitUnderLock == namesCache.hit

\* line 73 and the st.cache_data wrapper of line 33: the entry is read
\* without the lock
NamesRead(s) ==
    /\ pc[s] = "names"
    /\ cnt' = [cnt EXCEPT ![s].lookup = @ + 1]
    /\ IF namesCache.hit
       THEN /\ loc' = [loc EXCEPT
                    ![s].customers = namesCache.value,
                    ![s].stale = namesCache.value # NameList(table)]
            /\ namesReturned' = namesReturned \cup {namesCache.value}
            /\ pc' = [pc EXCEPT ![s] = "controls"]
       ELSE /\ pc' = [pc EXCEPT ![s] = "names_lock"]
            /\ UNCHANGED <<loc, namesReturned>>
    /\ UNCHANGED <<env, table, connCache, connLock, opens, namesCache,
                   namesLock, nameQueries, handlesReturned, ret, inp, out, prevRejected, fenceVars>>

\* the st.cache_data wrapper on a miss: the compute lock is taken and the
\* entry read again; on a second miss the function body starts (line 35)
NamesLock(s) ==
    /\ pc[s] = "names_lock"
    /\ namesLock = Free
    /\ IF NamesHitUnderLock
       THEN /\ loc' = [loc EXCEPT
                    ![s].customers = namesCache.value,
                    ![s].stale = namesCache.value # NameList(table)]
            /\ namesReturned' = namesReturned \cup {namesCache.value}
            /\ pc' = [pc EXCEPT ![s] = "controls"]
            /\ UNCHANGED <<namesLock, ret>>
       ELSE /\ namesLock' = s
            /\ pc' = [pc EXCEPT ![s] = "conn"]
            /\ ret' = [ret EXCEPT ![s] = "names_query"]
            /\ UNCHANGED <<loc, namesReturned>>
    /\ UNCHANGED <<env, table, connCache, connLock, opens, namesCache,
                   nameQueries, handlesReturned, inp, out, cnt,
                   prevRejected, fenceVars>>

\* lines 36-44 and the wrapper's write: the statement runs, its list is
\* stored and returned, the compute lock is released
NamesQuery(s) ==
    /\ pc[s] = "names_query"
    /\ LET names == NameList(table)
       IN  /\ namesCache' = [hit |-> TRUE, value |-> names]
           /\ loc' = [loc EXCEPT ![s].customers = names]
           /\ namesReturned' = namesReturned \cup {names}
    /\ nameQueries' = nameQueries + 1
    /\ cnt' = [cnt EXCEPT ![s].sql = @ + 1]
    /\ namesLock' = Free
    /\ pc' = [pc EXCEPT ![s] = "controls"]
    /\ UNCHANGED <<env, table, connCache, connLock, opens, handlesReturned,
                   ret, inp, out, prevRejected, fenceVars>>

\* a mutant of ConnStored: get_connection without its cache decorator
ConnNotStored(handle) == 0

\* st.cache_resource, the entry after the function body returned
ConnStored(handle) == handle

\* a get_connection() call and the st.cache_resource wrapper of line 26:
\* the entry is read without the lock
ConnRead(s) ==
    /\ pc[s] = "conn"
    /\ cnt' = [cnt EXCEPT ![s].conn = @ + 1]
    /\ IF connCache # 0
       THEN /\ loc' = [loc EXCEPT ![s].conn = connCache]
            /\ handlesReturned' = handlesReturned \cup {connCache}
            /\ pc' = [pc EXCEPT ![s] = ret[s]]
       ELSE /\ pc' = [pc EXCEPT ![s] = "conn_lock"]
            /\ UNCHANGED <<loc, handlesReturned>>
    /\ UNCHANGED <<env, table, connCache, connLock, opens, namesCache,
                   namesLock, nameQueries, namesReturned, ret, inp, out, prevRejected, fenceVars>>

\* the st.cache_resource wrapper on a miss: the compute lock is taken and
\* the entry read again
ConnLock(s) ==
    /\ pc[s] = "conn_lock"
    /\ connLock = Free
    /\ IF connCache # 0
       THEN /\ loc' = [loc EXCEPT ![s].conn = connCache]
            /\ handlesReturned' = handlesReturned \cup {connCache}
            /\ pc' = [pc EXCEPT ![s] = ret[s]]
            /\ UNCHANGED connLock
       ELSE /\ connLock' = s
            /\ pc' = [pc EXCEPT ![s] = "conn_open"]
            /\ UNCHANGED <<loc, handlesReturned>>
    /\ UNCHANGED <<env, table, connCache, opens, namesCache, namesLock,
                   nameQueries, namesReturned, ret, inp, out, cnt, prevRejected, fenceVars>>

\* lines 29-30 and the wrapper's write: the file is opened, the handle is
\* stored and returned, the compute lock is released
ConnOpen(s) ==
    /\ pc[s] = "conn_open"
    /\ opens' = opens + 1
    /\ LET conn == opens + 1
       IN  /\ connCache' = ConnStored(conn)
           /\ loc' = [loc EXCEPT ![s].conn = conn]
           /\ handlesReturned' = handlesReturned \cup {conn}
    /\ connLock' = Free
    /\ pc' = [pc EXCEPT ![s] = ret[s]]
    /\ UNCHANGED <<env, table, namesCache, namesLock, nameQueries,
                   namesReturned, ret, inp, out, cnt, prevRejected, fenceVars>>

\* the customers the select box offers; None when there is none
Selectable(customers) ==
    IF customers = <<>> THEN {NoText}
    ELSE {customers[i] : i \in DOMAIN customers}

\* lines 86-92: the text area's value
TextArea(edit) == IF edit = Unedited THEN Sample ELSE edit

\* lines 102-111: the get_connection() calls of the option's branch
DispatchCalls(query_option) ==
    IF query_option = "All customers total (ex3)" THEN 2
    ELSE IF query_option = "Custom SQL" THEN 0
    ELSE 1

\* a mutant of DispatchSql: the all-totals branch passes the customer on
DispatchSqlByCustomer(query_option, selected_customer, custom_sql) ==
    IF query_option = "Customer orders (ex1)" THEN ex1(selected_customer)
    ELSE IF query_option = "Customer total (ex2)" THEN ex2(selected_customer)
    ELSE IF query_option = "All customers total (ex3)"
         THEN ex2(selected_customer)
    ELSE custom_sql

\* a mutant of DispatchSql: an empty custom text falls back to the sample
DispatchSqlDefaulted(query_option, selected_customer, custom_sql) ==
    IF query_option = "Customer orders (ex1)" THEN ex1(selected_customer)
    ELSE IF query_option = "Customer total (ex2)" THEN ex2(selected_customer)
    ELSE IF query_option = "All customers total (ex3)" THEN ex3
    ELSE IF custom_sql = <<>> THEN Sample ELSE custom_sql

\* lines 101-114
DispatchSql(query_option, selected_customer, custom_sql) ==
    IF query_option = "Customer orders (ex1)" THEN ex1(selected_customer)
    ELSE IF query_option = "Customer total (ex2)" THEN ex2(selected_customer)
    ELSE IF query_option = "All customers total (ex3)" THEN ex3
    ELSE custom_sql

\* lines 70-100: the controls are rendered with the values the browser
\* holds for them.  inp and loc keep the values only when Run query was
\* pressed: no other rerun uses them.  Of the controls, out lists the
\* button; the select boxes and the text area are in inp.
Controls(s) ==
    /\ pc[s] = "controls"
    /\ \E selected_customer \in Selectable(loc[s].customers),
          query_option \in QueryOptions,
          edit \in (IF inp[s].trigger = "run" THEN Edits ELSE {Unedited}) :
        /\ query_option # "Custom SQL" => edit = Unedited
        /\ IF inp[s].trigger = "run"
           THEN /\ inp' = [inp EXCEPT
                        ![s].selected_customer = selected_customer,
                        ![s].query_option = query_option,
                        ![s].edit = edit]
                /\ loc' = [loc EXCEPT
                        ![s].custom_sql = IF query_option = "Custom SQL"
                                          THEN TextArea(edit) ELSE <<>>,
                        ![s].calls = DispatchCalls(query_option)]
           ELSE UNCHANGED <<inp, loc>>
    /\ out' = [out EXCEPT ![s] = Append(@, El("run_button"))]
    /\ pc' = [pc EXCEPT ![s] =
            IF inp[s].trigger = "run" THEN "dispatch" ELSE "ai"]
    /\ UNCHANGED <<env, table, connCache, connLock, opens, namesCache,
                   namesLock, nameQueries, handlesReturned, namesReturned,
                   ret, cnt, prevRejected, fenceVars>>

\* lines 100-119: the branch's get_connection() calls one by one, then the
\* statement, its preview, and the call of run_query
Dispatch(s) ==
    /\ pc[s] = "dispatch"
    /\ IF loc[s].calls > 0
       THEN /\ loc' = [loc EXCEPT ![s].calls = @ - 1]
            /\ ret' = [ret EXCEPT ![s] = "dispatch"]
            /\ UNCHANGED <<out, cnt>>
       ELSE LET sql == DispatchSql(inp[s].query_option,
                                   inp[s].selected_customer,
                                   loc[s].custom_sql)
            IN  /\ loc' = [loc EXCEPT ![s].sql = sql]
                /\ out' = [out EXCEPT ![s] = Append(@, Code("code", sql))]
                /\ cnt' = [cnt EXCEPT ![s].exec = @ + 1]
                /\ ret' = [ret EXCEPT ![s] = "exec_run"]
    /\ pc' = [pc EXCEPT ![s] = "conn"]
    /\ UNCHANGED <<env, table, connCache, connLock, opens, namesCache,
                   namesLock, nameQueries, handlesReturned, namesReturned,
                   inp, prevRejected, fenceVars>>

\* a mutant of QueryFailure: run_query is called outside any try
QueryFailureUncaught == [caught |-> FALSE, shown |-> <<El("exception")>>]

\* lines 118-122 and 188-193: what an exception of run_query comes to
QueryFailure == [caught |-> TRUE, shown |-> <<El("query_error")>>]

\* lines 48 and 119-122, 189-193: the statement runs on the shared handle
\* and its frame, or its error, is rendered
Exec(s) ==
    /\ pc[s] \in {"exec_run", "exec_ai"}
    /\ LET sql == IF pc[s] = "exec_run" THEN loc[s].sql
                  ELSE loc[s].sql_from_ai
           after == IF pc[s] = "exec_run" THEN "ai" ELSE "done"
       IN  \E r \in ReadSqlQuery(sql, table) :
            /\ table' = r.table
            /\ loc' = [loc EXCEPT ![s].result = r.result]
            /\ IF r.result = "rows"
               THEN /\ out' = [out EXCEPT ![s] = Append(@, El("dataframe"))]
                    /\ pc' = [pc EXCEPT ![s] = after]
               ELSE /\ out' = [out EXCEPT ![s] = @ \o QueryFailure.shown]
                    /\ pc' = [pc EXCEPT ![s] =
                            IF QueryFailure.caught THEN after ELSE "crashed"]
    /\ cnt' = [cnt EXCEPT ![s].sql = @ + 1]
    /\ UNCHANGED <<env, connCache, connLock, opens, namesCache, namesLock,
                   nameQueries, handlesReturned, namesReturned, ret, inp, prevRejected, fenceVars>>

\* a mutant of QuestionBlank: the question is not stripped
QuestionEmpty(nl_question) == nl_question = <<>>

\* line 134: not nl_question.strip()
QuestionBlank(nl_question) == Strip(nl_question) = <<>>

\* a mutant of AiFaultStops: the except clause lacks its st.stop()
AiFaultGoesOn == FALSE

\* lines 175-177: a fault of the hosted call ends the rerun
AiFaultStops == TRUE

\* lines 126-189: the question field and the Ask AI button; on a press
\* with a question, the one hosted call, the clean-up of its reply, the
\* preview, and the call of run_query.  inp keeps the question only when
\* Ask AI was pressed.
AiSection(s) ==
    /\ pc[s] = "ai"
    /\ \E nl_question \in
            (IF inp[s].trigger = "ask" THEN Questions ELSE {<<>>}),
          reply \in AiOutcomes :
        LET page == out[s] \o <<El("question_input"), El("ask_button")>>
        IN  IF inp[s].trigger # "ask"
            THEN /\ out' = [out EXCEPT ![s] = page]
                 /\ pc' = [pc EXCEPT ![s] = "done"]
                 /\ UNCHANGED <<inp, loc, cnt, ret>>
            ELSE IF QuestionBlank(nl_question)
            THEN /\ inp' = [inp EXCEPT ![s].nl_question = nl_question]
                 /\ out' = [out EXCEPT ![s] = Append(page, El("warning"))]
                 /\ pc' = [pc EXCEPT ![s] = "done"]
                 /\ UNCHANGED <<loc, cnt, ret>>
            ELSE IF reply.kind # "reply"
            THEN /\ inp' = [inp EXCEPT ![s].nl_question = nl_question,
                                       ![s].reply = reply]
                 /\ out' = [out EXCEPT ![s] = Append(page, El("groq_error"))]
                 /\ IF AiFaultStops
                    THEN /\ pc' = [pc EXCEPT ![s] = "stopped"]
                         /\ cnt' = [cnt EXCEPT ![s].ai = @ + 1]
                         /\ UNCHANGED ret
                    ELSE /\ pc' = [pc EXCEPT ![s] = "conn"]
                         /\ cnt' = [cnt EXCEPT ![s].ai = @ + 1,
                                               ![s].exec = @ + 1]
                         /\ ret' = [ret EXCEPT ![s] = "exec_ai"]
                 /\ UNCHANGED loc
            ELSE LET cleaned == RemoveFences(Strip(reply.text))
                 IN  /\ inp' = [inp EXCEPT ![s].nl_question = nl_question,
                                           ![s].reply = reply]
                     /\ loc' = [loc EXCEPT ![s].sql_from_ai = cleaned]
                     /\ out' = [out EXCEPT ![s] =
                             Append(page, Code("generated_sql", cleaned))]
                     /\ cnt' = [cnt EXCEPT ![s].ai = @ + 1,
                                           ![s].exec = @ + 1]
                     /\ pc' = [pc EXCEPT ![s] = "conn"]
                     /\ ret' = [ret EXCEPT ![s] = "exec_ai"]
    /\ UNCHANGED <<env, table, connCache, connLock, opens, namesCache,
                   namesLock, nameQueries, handlesReturned, namesReturned, prevRejected, fenceVars>>

\* the statement the rerun handed to run_query
Executed(s) ==
    IF Shown(s, "generated_sql") THEN loc[s].sql_from_ai ELSE loc[s].sql

\* the script has ended: its variables are gone, and the page's widgets
\* wait in the browser for the next event
Finish(s) ==
    /\ pc[s] \in Ended
    /\ prevRejected' = [prevRejected EXCEPT ![s] =
            IF loc[s].result = "none" THEN @
            ELSE loc[s].result = "error" /\ IsRejected(Executed(s))]
    /\ pc' = [pc EXCEPT ![s] = "idle"]
    /\ out' = [out EXCEPT ![s] = Widgets(@)]
    /\ inp' = [inp EXCEPT ![s] = NoInput]
    /\ loc' = [loc EXCEPT ![s] = NoLocals]
    /\ cnt' = [cnt EXCEPT ![s] = NoCounts]
    /\ ret' = [ret EXCEPT ![s] = "none"]
    /\ UNCHANGED <<env, table, connCache, connLock, opens, namesCache,
                   namesLock, nameQueries, handlesReturned, namesReturned,
                   fenceVars>>

-----------------------------------------------------------------------------
(* The specifications.                                                     *)

NoReply == [text |-> <<>>, form |-> "none", tag |-> <<>>, body |-> <<>>]

\* the process before its first rerun: caches empty, nothing opened.
\* normalized.db is taken to exist with its Customer table, so that
\* sqlite3.connect and the customer-name statement succeed.
Fresh ==
    /\ connCache = 0
    /\ connLock = Free
    /\ opens = 0
    /\ namesCache = [hit |-> FALSE, value |-> <<>>]
    /\ namesLock = Free
    /\ nameQueries = 0
    /\ handlesReturned = {}
    /\ namesReturned = {}
    /\ pc = [s \in Sessions |-> "idle"]
    /\ ret = [s \in Sessions |-> "none"]
    /\ inp = [s \in Sessions |-> NoInput]
    /\ loc = [s \in Sessions |-> NoLocals]
    /\ out = [s \in Sessions |-> <<>>]
    /\ cnt = [s \in Sessions |-> NoCounts]
    /\ prevRejected = [s \in Sessions |-> FALSE]

Init ==
    /\ env \in EnvValues
    /\ table = CustomerNames
    /\ Fresh
    /\ content = NoReply
    /\ sql_from_ai = <<>>
    /\ phase = "off"

Next ==
    \E s \in Sessions :
        \/ Rerun(s)
        \/ NamesRead(s)
        \/ NamesLock(s)
        \/ NamesQuery(s)
        \/ ConnRead(s)
        \/ ConnLock(s)
        \/ ConnOpen(s)
        \/ Controls(s)
        \/ Dispatch(s)
        \/ Exec(s)
        \/ AiSection(s)
        \/ Finish(s)

Spec == Init /\ [][Next]_vars

FenceInit ==
    /\ env = [APP_PASSWORD |-> None, GROQ_API_KEY |-> "gsk_key"]
    /\ table = CustomerNames
    /\ Fresh
    /\ \E form \in {"fenced", "raw"}, lpad \in Pads, rpad \in Pads :
        \E tag \in (IF form = "fenced" THEN Tags ELSE {<<>>}),
           body \in (IF form = "fenced" THEN Bodies
                     ELSE Texts(FenceAlphabet, MaxRaw)) :
            content = FenceReply(form, lpad, tag, body, rpad)
    /\ sql_from_ai = <<>>
    /\ phase = "reply"

FenceNext == TrimReply \/ CleanReply

SpecFence == FenceInit /\ [][FenceNext]_vars

-----------------------------------------------------------------------------
(* The claims.                                                             *)

\* a rerun of the session is under way or has just ended
InRerun(s) == pc[s] # "idle"

\* every character of the text is whitespace
AllWhitespace(text) == \A i \in DOMAIN text : text[i] \in Whitespace

\* the statement of the session's preview block
Preview(s) ==
    {out[s][i].text : i \in {j \in DOMAIN out[s] :
        out[s][j].el \in {"code", "generated_sql"}}}

\* C1: a rerun whose entered password differs from the configured secret
\* stops at the login prompt, whatever button started it: it requests no
\* connection, runs no name lookup, executes no SQL and calls no model.
C1_WrongPasswordStopsAtLogin ==
    \A s \in Sessions :
        InRerun(s) /\ inp[s].password # APP_PASSWORD =>
            /\ pc[s] = "stopped"
            /\ cnt[s] = NoCounts
            /\ loc[s] = NoLocals
            /\ ret[s] = "none"
            /\ env.GROQ_API_KEY \notin {None, ""} =>
                    out[s] = <<El("password_input"), El("login_info")>>

\* C1's case: after the connection was opened by earlier interactions, a
\* press of Ask AI arrives with a wrong password and the rerun is stopped
C1_Witness ==
    \E s \in Sessions :
        /\ pc[s] = "stopped"
        /\ inp[s].password \notin {"", APP_PASSWORD}
        /\ inp[s].trigger = "ask"
        /\ Shown(s, "login_info")
        /\ opens = 1

\* C2: a press of Ask AI with an empty or whitespace-only question makes
\* no hosted-model call and executes no SQL in that rerun; a warning is
\* shown.
C2_BlankQuestionCallsNothing ==
    \A s \in Sessions :
        /\ pc[s] \in Ended
        /\ inp[s].trigger = "ask"
        /\ Shown(s, "ask_button")
        /\ AllWhitespace(inp[s].nl_question)
        => /\ cnt[s].ai = 0
           /\ cnt[s].exec = 0
           /\ cnt[s].sql = 0
           /\ inp[s].reply.kind = "none"
           /\ Shown(s, "warning")
           /\ Preview(s) = {}
           /\ pc[s] = "done"

\* C2's case: Ask AI was pressed with a question of a space and a newline
C2_Witness ==
    \E s \in Sessions :
        /\ pc[s] = "done"
        /\ inp[s].trigger = "ask"
        /\ inp[s].nl_question = <<" ", NL>>
        /\ Shown(s, "warning")

\* C3: a press of Ask AI with a non-blank question makes exactly one
\* hosted-model request; when the request or the reading of its first
\* completion faults, the error is shown, the rerun stops without a retry
\* and run_query is not called.
C3_OneRequestAndFaultAborts ==
    \A s \in Sessions :
        /\ cnt[s].ai <= 1
        /\ inp[s].trigger = "ask" /\ Shown(s, "ask_button")
              /\ ~AllWhitespace(inp[s].nl_question)
           => cnt[s].ai = 1 /\ inp[s].reply.kind # "none"
        /\ inp[s].reply.kind \in {"request_fault", "read_fault"}
           => /\ pc[s] = "stopped"
              /\ Shown(s, "groq_error")
              /\ cnt[s].ai = 1
              /\ cnt[s].exec = 0
              /\ cnt[s].sql = 0
              /\ Preview(s) = {}

\* C3's case: the reading of the first completion's text faulted
C3_Witness ==
    \E s \in Sessions :
        /\ pc[s] = "stopped"
        /\ inp[s].reply.kind = "read_fault"
        /\ ~AllWhitespace(inp[s].nl_question)
        /\ Shown(s, "groq_error")

\* the body of a fenced reply C4 speaks of: no backtick, no whitespace
\* around it, and not beginning with sql in any case
PlainBody(body) ==
    /\ \A i \in DOMAIN body : body[i] # BT
    /\ body # <<>> => body[1] \notin Whitespace /\ body[Len(body)] \notin Whitespace
    /\ ~(Len(body) >= 3 /\ Lower(SubSeq(body, 1, 3)) = SqlTag)

\* the text without the whitespace around it (the trimmed reply)
Trimmed(text) ==
    IF \A i \in DOMAIN text : text[i] \in Whitespace THEN <<>>
    ELSE LET first == CHOOSE i \in DOMAIN text :
                        /\ text[i] \notin Whitespace
                        /\ \A j \in 1..(i - 1) : text[j] \in Whitespace
             last == CHOOSE i \in DOMAIN text :
                        /\ text[i] \notin Whitespace
                        /\ \A j \in (i + 1)..Len(text) : text[j] \in Whitespace
         IN  SubSeq(text, first, last)

\* C4: a reply of the form triple-backtick, optional sql tag, newline,
\* body, newline, triple-backtick, with a plain body, is reduced to the
\* body; a reply whose trimmed text does not begin with a triple-backtick
\* is left as its trimmed text, backticks in it or at its end included.
C4_FenceStripping ==
    phase = "cleaned" =>
        /\ content.form = "fenced" /\ PlainBody(content.body)
           => sql_from_ai = content.body
        /\ ~(Len(Trimmed(content.text)) >= 3
             /\ SubSeq(Trimmed(content.text), 1, 3) = Fence)
           => sql_from_ai = Trimmed(content.text)

\* C4's case: a padded reply with an upper-case tag and a body of three
\* characters has been cleaned
C4_Witness ==
    /\ phase = "cleaned"
    /\ content.form = "fenced"
    /\ content.tag = <<"S", "Q", "L">>
    /\ content.body = <<"x", " ", "s">>
    /\ content.text # Fenced(content.tag, content.body)
    /\ sql_from_ai = content.body

\* C5: when the engine rejects the statement of Run query or of Ask AI,
\* the failure is caught in that action, an error is shown under the
\* preview, the script does not crash, the cached connection and customer
\* list are the ones the rerun used, and a valid statement executes
\* normally, in the interaction after a rejected one too.
C5_RejectedStatementIsCaught ==
    \A s \in Sessions :
        loc[s].result # "none" =>
            /\ pc[s] # "crashed"
            /\ Preview(s) = {Executed(s)}
            /\ connCache = loc[s].conn /\ connCache # 0
            /\ namesCache = [hit |-> TRUE, value |-> loc[s].customers]
            /\ IsRejected(Executed(s)) =>
                    /\ loc[s].result = "error"
                    /\ Shown(s, "query_error")
                    /\ ~Shown(s, "dataframe")
            /\ IsRead(Executed(s)) =>
                    /\ loc[s].result = "rows"
                    /\ Shown(s, "dataframe")
                    /\ ~Shown(s, "query_error")

\* C5's case: the engine rejected the session's previous statement, an
\* error was shown, and the session's next statement, a valid one written
\* by the hosted model, has produced its rows
C5_Witness ==
    \E s \in Sessions :
        /\ prevRejected[s]
        /\ pc[s] = "done"
        /\ inp[s].trigger = "ask"
        /\ loc[s].result = "rows"
        /\ IsRead(Executed(s))
        /\ Shown(s, "dataframe")

\* the session ran Run query in Custom SQL mode
CustomRan(s) == inp[s].query_option = "Custom SQL" /\ Shown(s, "code")

\* the text in the session's text area
AreaText(s) == IF inp[s].edit = Unedited THEN Sample ELSE inp[s].edit

\* C6 as stated: in custom mode the statement dispatched is the text of the
\* text area, and the sample statement when that text is empty.
C6_EmptyTextDispatchesSample ==
    \A s \in Sessions :
        CustomRan(s) =>
            loc[s].sql = IF AreaText(s) = <<>> THEN Sample ELSE AreaText(s)

\* C6 as amended: in custom mode the statement dispatched is the text of
\* the text area verbatim: the sample statement while the user has not
\* edited the area, and the empty string when the user has emptied it.
C6_CustomTextVerbatim ==
    \A s \in Sessions :
        CustomRan(s) =>
            /\ inp[s].edit = Unedited => loc[s].sql = Sample
            /\ inp[s].edit # Unedited => loc[s].sql = inp[s].edit
            /\ Preview(s) = {loc[s].sql}

\* C6's case: the user emptied the text area and pressed Run query; the
\* empty string went to the engine
C6_Witness ==
    \E s \in Sessions :
        /\ CustomRan(s)
        /\ inp[s].edit = <<>>
        /\ loc[s].sql = <<>>
        /\ loc[s].result = "error"

\* C7: the database file is opened at most once, also when reruns overlap:
\* every get_connection call returns the one handle the first call opened,
\* and that handle stays the cached one.
C7_OneConnection ==
    /\ opens <= 1
    /\ Cardinality(handlesReturned) <= 1
    /\ connCache # 0 => opens = 1 /\ connCache = 1
    /\ handlesReturned # {} => handlesReturned = {connCache}
    /\ \A s \in Sessions : loc[s].conn \in {0, connCache}

\* C7's case: two overlapping reruns, one in Run query and one in Ask AI,
\* both about to execute on the same handle
C7_Witness ==
    \E s, t \in Sessions :
        /\ pc[s] = "exec_run"
        /\ pc[t] = "exec_ai"
        /\ loc[s].conn = loc[t].conn
        /\ cnt[s].conn >= 1 /\ cnt[t].conn >= 1
        /\ opens = 1

\* C8: the customer-name statement is executed at most once per process;
\* every get_customer_names call returns the same list in the same order,
\* also after the Customer table was changed.
C8_OneNameQuery ==
    /\ nameQueries <= 1
    /\ Cardinality(namesReturned) <= 1
    /\ namesCache.hit => nameQueries = 1 /\ namesReturned = {namesCache.value}
    /\ \A s \in Sessions :
        pc[s] \notin {"idle", "stopped", "names", "names_lock", "conn",
                      "conn_lock", "conn_open", "names_query"}
            => loc[s].customers \in namesReturned
    /\ \A s \in Sessions : cnt[s].lookup <= 1

\* C8's case: a call made after a statement emptied the Customer table
\* returned the list read before
C8_Witness ==
    \E s \in Sessions :
        /\ pc[s] = "controls"
        /\ loc[s].stale
        /\ table = {}
        /\ loc[s].customers = <<Ann, Bob>>
        /\ cnt[s].sql = 0

\* the session ran Run query in all-totals mode
AllTotalsRan(s) ==
    inp[s].query_option = "All customers total (ex3)" /\ Shown(s, "code")

\* C9: in all-totals mode the statement previewed and executed does not
\* depend on the selected customer: two runs that differ in the selected
\* customer dispatch the same statement.
C9_AllTotalsIgnoresCustomer ==
    \A s, t \in Sessions :
        AllTotalsRan(s) /\ AllTotalsRan(t) =>
            /\ loc[s].sql = loc[t].sql
            /\ Preview(s) = Preview(t)
            /\ Preview(s) = {loc[s].sql}

\* C9's case: two sessions ran all-totals with different customers selected
C9_Witness ==
    \E s, t \in Sessions :
        /\ AllTotalsRan(s) /\ AllTotalsRan(t)
        /\ inp[s].selected_customer # inp[t].selected_customer
        /\ loc[s].result = "rows" /\ loc[t].result = "rows"

\* C10: with the hosted-model API key unset or empty the script halts at
\* once: the password field is never shown, the connection is never opened,
\* and no lookup, query or hosted-model call occurs.
C10_MissingKeyHalts ==
    env.GROQ_API_KEY \in {None, ""} =>
        /\ opens = 0 /\ connCache = 0
        /\ nameQueries = 0 /\ ~namesCache.hit
        /\ \A s \in Sessions :
            /\ pc[s] \in {"idle", "stopped"}
            /\ ~Shown(s, "password_input")
            /\ out[s] \in {<<>>, <<El("key_error")>>}
            /\ inp[s] = NoInput
            /\ cnt[s] = NoCounts
            /\ loc[s] = NoLocals

\* C10's case: the key is set but empty, and a rerun has halted on it
C10_Witness ==
    /\ env.GROQ_API_KEY = ""
    /\ \E s \in Sessions : pc[s] = "stopped" /\ Shown(s, "key_error")

====
